---- MODULE Spec2Model ----
(***************************************************************************)
(* Model of util/testrunner/qt-testrunner.py: the wrapper that runs a Qt   *)
(* test executable, reads its XML test log and re-runs the failed          *)
(* testcases.  One behaviour of the model is one invocation of main().     *)
(***************************************************************************)
EXTENDS Integers, Sequences, FiniteSets, TLC

(* ------------------------------ bounds --------------------------------- *)
\* largest --max-repeats explored
MaxRepeats == 2
\* largest --passes-needed explored
MaxPassesNeeded == 2
\* largest number of <Incident> elements in an XML test log
MaxIncidents == 2

(* --------------------------- the environment --------------------------- *)
\* names of <TestFunction> elements
Funcs == {"foo"}
\* the "type" attribute of an <Incident>
IncidentTypes == {"pass", "fail", "xpass"}
\* e2.find("DataTag") is None
NoTag == "None"
\* text of a <DataTag>, or NoTag when the incident has none
Tags == {NoTag, "row1"}
\* returncode of a process killed by SIGSEGV, as subprocess.run reports it
SIGSEGV_RETURNCODE == 0 - 11
\* the returncodes one call of run_test can produce, when it does not raise
\* (subprocess.TimeoutExpired, OSError)
Returncodes == {0, 1, SIGSEGV_RETURNCODE}
\* the value of results_file when no log was asked for
NoneFile == "None"
\* os.path.join(output_dir, test_basename + ".xml"), or args.parse_xml_testlog
LogPath == "log.xml"
\* the value of exit_code while the script has not exited
Running == 0 - 1

\* one <Incident> of a <TestFunction name=func>, in document order
Incidents == [func : Funcs, type : IncidentTypes, tag : Tags]

IncidentSeqs == UNION {[1..n -> Incidents] : n \in 0..MaxIncidents}

\* what can be found at the path of the XML log
FileContents ==
    {[kind |-> "absent", root |-> "", incidents |-> <<>>],
     [kind |-> "garbage", root |-> "", incidents |-> <<>>],
     [kind |-> "xml", root |-> "TestSuite", incidents |-> <<>>]}
    \cup {[kind |-> "xml", root |-> "TestCase", incidents |-> s] : s \in IncidentSeqs}

(* ------------------------------ parse_log ------------------------------ *)
WhatFailed(func, tag) == [func |-> func, tag |-> tag]

\* mutation: a testcase that failed before is not listed again
RECURSIVE CollectUnique(_, _)
CollectUnique(incs, seen) ==
    IF incs = <<>> THEN <<>>
    ELSE LET w == WhatFailed(Head(incs).func, Head(incs).tag) IN
         IF Head(incs).type \in {"fail", "xpass"} /\ w \notin seen
         THEN <<w>> \o CollectUnique(Tail(incs), seen \cup {w})
         ELSE CollectUnique(Tail(incs), seen)

CollectFailures_Dedup(incs) == CollectUnique(incs, {})

\* mutation: only the "fail" incidents are failures
RECURSIVE CollectFailures_FailOnly(_)
CollectFailures_FailOnly(incs) ==
    IF incs = <<>> THEN <<>>
    ELSE IF Head(incs).type = "fail"
         THEN <<WhatFailed(Head(incs).func, Head(incs).tag)>>
              \o CollectFailures_FailOnly(Tail(incs))
         ELSE CollectFailures_FailOnly(Tail(incs))

\* the loop of parse_log over the incidents, in document order
RECURSIVE CollectFailures(_)
CollectFailures(incs) ==
    IF incs = <<>> THEN <<>>
    ELSE IF Head(incs).type \in {"fail", "xpass"}
         THEN <<WhatFailed(Head(incs).func, Head(incs).tag)>> \o CollectFailures(Tail(incs))
         ELSE CollectFailures(Tail(incs))

RECURSIVE CountPasses(_)
CountPasses(incs) ==
    IF incs = <<>> THEN 0
    ELSE (IF Head(incs).type \in {"fail", "xpass"} THEN 0 ELSE 1) + CountPasses(Tail(incs))

\* parse_log(results_file) where `file` is what is found at results_file:
\* raised is the exception, "" when it returns
parse_log(path, file) ==
    IF path = NoneFile
    THEN [raised |-> "TypeError", failures |-> <<>>, n_passes |-> 0]
    ELSE IF file.kind = "absent"
    THEN [raised |-> "FileNotFoundError", failures |-> <<>>, n_passes |-> 0]
    ELSE IF file.kind = "garbage"
    THEN [raised |-> "ParseError", failures |-> <<>>, n_passes |-> 0]
    ELSE IF file.root # "TestCase"
    THEN [raised |-> "AssertionError", failures |-> <<>>, n_passes |-> 0]
    ELSE [raised |-> "",
          failures |-> CollectFailures(file.incidents),
          n_passes |-> CountPasses(file.incidents)]

(* ------------------------------- state --------------------------------- *)
VARIABLES
    args,              \* the parsed command line
    pc,                \* where main() is
    i,                 \* main: index of the full run
    retcode,           \* main: exit code of the last full run
    results_file,      \* main: path of the XML log, or NoneFile
    xml,               \* what is on disk at LogPath
    failed_functions,  \* main: the parsed failures
    what_failed,       \* main: index in failed_functions of the testcase re-run
    rerun_i,           \* rerun_failed_testcase: the loop index i
    n_passes,          \* rerun_failed_testcase: passes counted
    exit_code,         \* the exit code of the script, Running before it exits
    n_full_execs,      \* history: calls of run_full_test
    n_case_execs,      \* history: calls of run_test by rerun_failed_testcase
    n_parses,          \* history: calls of parse_log
    full_log,          \* history: per full run, its outcome and the log it left
    case_log,          \* history: per re-run testcase, its attempts and outcomes
    rets               \* history: the values rerun_failed_testcase returned

vars == <<args, pc, i, retcode, results_file, xml, failed_functions, what_failed,
          rerun_i, n_passes, exit_code, n_full_execs, n_case_execs, n_parses,
          full_log, case_log, rets>>

history == <<n_full_execs, n_case_execs, n_parses, full_log, case_log, rets>>

\* parse_args: the options main() reads; tst_selftests sets no_extra_args
\* and max_repeats = 0
Args ==
    [max_repeats : 0..MaxRepeats,
     passes_needed : 0..MaxPassesNeeded,
     parse_xml_testlog : BOOLEAN,
     no_extra_args : BOOLEAN]

\* mutation: two iterations of the loop with --parse-xml-testlog too
n_full_runs_AlwaysTwo == IF args.parse_xml_testlog THEN 2 ELSE 2

\* mutation: one more full run allowed
n_full_runs_Three == IF args.parse_xml_testlog THEN 1 ELSE 3

n_full_runs == IF args.parse_xml_testlog THEN 1 ELSE 2

Init ==
    /\ args \in Args
    /\ pc = "full_run"
    /\ i = 0
    /\ retcode = 0
    /\ results_file = NoneFile
    /\ xml \in (IF args.parse_xml_testlog THEN FileContents
                ELSE {[kind |-> "absent", root |-> "", incidents |-> <<>>]})
    /\ failed_functions = <<>>
    /\ what_failed = 0
    /\ rerun_i = 0
    /\ n_passes = 0
    /\ exit_code = Running
    /\ n_full_execs = 0
    /\ n_case_execs = 0
    /\ n_parses = 0
    /\ full_log = <<>>
    /\ case_log = <<>>
    /\ rets = <<>>

(* ------------------------------- main ---------------------------------- *)
\* sys.exit(code)
Exit(code) ==
    /\ pc' = "done"
    /\ exit_code' = code

\* the except clause of the loop over the full runs
FullRunExcept ==
    IF i < n_full_runs - 1
    THEN /\ i' = i + 1
         /\ pc' = "full_run"
         /\ exit_code' = exit_code
    ELSE /\ i' = i
         /\ Exit(3)

\* the classes of the exceptions the model raises, all subclasses of
\* Exception
ExceptionClasses ==
    {"TypeError", "FileNotFoundError", "ParseError", "AssertionError", "TimeoutExpired"}

\* mutation: the handlers let an AssertionError through
Caught_NotAssertion(exc) == exc \in ExceptionClasses \ {"AssertionError"}

\* except Exception as e
Caught(exc) == exc \in ExceptionClasses

\* an exception no handler catches ends the script with a traceback and
\* exit code 1
Uncaught ==
    /\ pc' = "uncaught"
    /\ exit_code' = 1

\* exc is raised inside the try block of the loop over the full runs
FullRunRaise(exc) ==
    IF Caught(exc) THEN FullRunExcept
    ELSE /\ i' = i
         /\ Uncaught

\* exc is raised inside the try block around rerun_failed_testcase
RerunRaise(exc) ==
    IF Caught(exc) THEN Exit(3) ELSE Uncaught

\* mutation: the test of the exit code of the full run inverted
FullRunPassed_Inverted(rc) == rc # 0

\* if retcode == 0: sys.exit(0)
FullRunPassed(rc) == rc = 0

\* mutation: the test for "no re-runs asked" never true for max_repeats = 0
NoRerunsAsked_Negative == args.max_repeats < 0

\* if args.max_repeats == 0: sys.exit(2)
NoRerunsAsked == args.max_repeats = 0

\* what the log of a full run shows, for the history
LogKind(path, file) ==
    LET p == parse_log(path, file) IN
    IF p.raised = "" THEN (IF p.failures = <<>> THEN "no_failures" ELSE "failures")
    ELSE p.raised

\* run_full_test: results_files[0] if results_files else None
ResultsFile == IF args.no_extra_args THEN NoneFile ELSE LogPath

\* one iteration of the loop with --parse-xml-testlog: no process is run
UseGivenTestlog ==
    /\ pc = "full_run"
    /\ args.parse_xml_testlog
    /\ retcode' = 1
    /\ results_file' = LogPath
    /\ pc' = "parse_log"
    /\ UNCHANGED <<args, i, xml, failed_functions, what_failed, rerun_i, n_passes,
                   exit_code, history>>

\* run_full_test raises (timeout, the executable cannot be started)
RunFullTestRaises ==
    /\ pc = "full_run"
    /\ ~args.parse_xml_testlog
    /\ n_full_execs' = n_full_execs + 1
    /\ full_log' = Append(full_log, [outcome |-> "raised", log |-> LogKind(ResultsFile, xml)])
    /\ FullRunRaise("TimeoutExpired")
    /\ UNCHANGED <<args, retcode, results_file, xml, failed_functions, what_failed,
                   rerun_i, n_passes, n_case_execs, n_parses, case_log, rets>>

\* run_full_test returns (returncode, results_file); the executable has
\* written the log, or not, when it was asked to
RunFullTest ==
    /\ pc = "full_run"
    /\ ~args.parse_xml_testlog
    /\ \E rc \in Returncodes, file \in FileContents :
        /\ args.no_extra_args => file = xml
        /\ retcode' = rc
        /\ results_file' = ResultsFile
        /\ xml' = file
        /\ n_full_execs' = n_full_execs + 1
        /\ full_log' = Append(full_log,
                              [outcome |-> (IF rc = 0 THEN "zero" ELSE "nonzero"),
                               log |-> LogKind(results_file', file)])
        /\ IF FullRunPassed(rc) THEN Exit(0)
           ELSE /\ pc' = "parse_log"
                /\ exit_code' = exit_code
    /\ UNCHANGED <<args, i, failed_functions, what_failed, rerun_i, n_passes,
                   n_case_execs, n_parses, case_log, rets>>

\* mutation: the assertion on the failure list made in every mode
ChecksNonEmpty_Always == TRUE

\* if not args.parse_xml_testlog: assert len(failed_functions) > 0
ChecksNonEmpty == ~args.parse_xml_testlog

\* failed_functions = parse_log(results_file), the assertion after it, and
\* the break out of the loop or the except clause
ParseLog ==
    /\ pc = "parse_log"
    /\ n_parses' = n_parses + 1
    /\ LET p == parse_log(results_file, xml) IN
        IF p.raised # ""
        THEN /\ FullRunRaise(p.raised)
             /\ failed_functions' = failed_functions
        ELSE IF ChecksNonEmpty /\ ~(Len(p.failures) > 0)
        THEN /\ FullRunRaise("AssertionError")
             /\ failed_functions' = p.failures
        ELSE /\ failed_functions' = p.failures
             /\ pc' = "check_repeats"
             /\ UNCHANGED <<i, exit_code>>
    /\ UNCHANGED <<args, retcode, results_file, xml, what_failed, rerun_i, n_passes,
                   n_full_execs, n_case_execs, full_log, case_log, rets>>

\* if args.max_repeats == 0: sys.exit(2); then the for loop over
\* failed_functions starts, or falls through to sys.exit(0) when it is empty
CheckMaxRepeats ==
    /\ pc = "check_repeats"
    /\ IF NoRerunsAsked
       THEN /\ Exit(2)
            /\ what_failed' = what_failed
       ELSE IF failed_functions = <<>>
       THEN /\ Exit(0)
            /\ what_failed' = what_failed
       ELSE /\ what_failed' = 1
            /\ pc' = "rerun_call"
            /\ exit_code' = exit_code
    /\ UNCHANGED <<args, i, retcode, results_file, xml, failed_functions, rerun_i,
                   n_passes, history>>

(* ------------------------ rerun_failed_testcase ------------------------ *)
\* the history entry of a testcase whose re-runs begin
NewCase ==
    [runs |-> 0, zeros |-> 0, verbose |-> 0, killed |-> FALSE, raised |-> "",
     failed_arg |-> <<>>]

\* failed_arg: the function, and ":" and the tag when there is one, here
\* as the sequence of the parts
FailedArg(w) == IF w.tag # NoTag THEN <<w.func, ":", w.tag>> ELSE <<w.func>>

\* the history entry of the testcase rerun_failed_testcase is called for,
\* once failed_arg is computed
NewCaseFor(w) == [NewCase EXCEPT !.failed_arg = FailedArg(w)]

\* the entry of the testcase being re-run, updated by f
LogCase(f(_)) ==
    [case_log EXCEPT ![Len(case_log)] = f(case_log[Len(case_log)])]

\* mutation: the assertion on the policy dropped
PolicyOk_Unchecked == TRUE

\* assert passes_needed <= max_repeats
PolicyOk == args.passes_needed <= args.max_repeats

\* mutation: the test of the returncode inverted
IsPass_Inverted(rc) == rc # 0

\* if proc.returncode == 0
IsPass(rc) == rc = 0

\* mutation: one pass more than needed is waited for
PassedEnough_Greater(passes) == passes > args.passes_needed

\* if n_passes == passes_needed
PassedEnough(passes) == passes = args.passes_needed

\* mutation: the first re-run, not the last, gets the verbose arguments
IsVerboseRun_First(idx) == idx = 0

\* if i < max_repeats - 1 ... else: the last re-run gets VERBOSE_ARGS and
\* VERBOSE_ENV
IsVerboseRun(idx) == ~(idx < args.max_repeats - 1)

\* assert n_passes < passes_needed; assert n_passes <= max_repeats
PostLoopAssertsOk(passes) ==
    /\ passes < args.passes_needed
    /\ passes <= args.max_repeats

\* mutation: main ignores the value rerun_failed_testcase returned
RerunReturns_IgnoreRet(ret) ==
    /\ rets' = Append(rets, ret)
    /\ IF what_failed < Len(failed_functions)
       THEN /\ what_failed' = what_failed + 1
            /\ pc' = "rerun_call"
            /\ exit_code' = exit_code
       ELSE /\ Exit(0)
            /\ what_failed' = what_failed

\* rerun_failed_testcase returned ret to the loop of main
RerunReturns(ret) ==
    /\ rets' = Append(rets, ret)
    /\ IF ~ret THEN /\ Exit(2)
                    /\ what_failed' = what_failed
       ELSE IF what_failed < Len(failed_functions)
       THEN /\ what_failed' = what_failed + 1
            /\ pc' = "rerun_call"
            /\ exit_code' = exit_code
       ELSE /\ Exit(0)
            /\ what_failed' = what_failed

\* the entry of rerun_failed_testcase: the assertion on the policy, and
\* n_passes = 0 before the loop; with an empty range(max_repeats) the loop
\* is skipped.  An AssertionError reaches the except clause of main, which
\* exits with 3
CallRerun ==
    /\ pc = "rerun_call"
    /\ IF ~PolicyOk
       THEN /\ case_log' = Append(case_log, [NewCase EXCEPT !.raised = "AssertionError"])
            /\ RerunRaise("AssertionError")
            /\ UNCHANGED <<n_passes, rerun_i, what_failed, rets>>
       ELSE IF 0 < args.max_repeats
       THEN /\ n_passes' = 0
            /\ rerun_i' = 0
            /\ case_log' = Append(case_log, NewCaseFor(failed_functions[what_failed]))
            /\ pc' = "rerun_loop"
            /\ UNCHANGED <<exit_code, what_failed, rets>>
       ELSE IF PostLoopAssertsOk(0)
       THEN /\ n_passes' = 0
            /\ rerun_i' = rerun_i
            /\ case_log' = Append(case_log, NewCaseFor(failed_functions[what_failed]))
            /\ RerunReturns(FALSE)
       ELSE /\ n_passes' = 0
            /\ rerun_i' = rerun_i
            /\ case_log' = Append(case_log, [NewCaseFor(failed_functions[what_failed])
                                             EXCEPT !.raised = "AssertionError"])
            /\ RerunRaise("AssertionError")
            /\ UNCHANGED <<what_failed, rets>>
    /\ UNCHANGED <<args, i, retcode, results_file, xml, failed_functions,
                   n_full_execs, n_case_execs, n_parses, full_log>>

\* run_test raises in a re-run (timeout, the executable cannot be started):
\* the except clause of main exits with 3
RerunRaises ==
    /\ pc = "rerun_loop"
    /\ n_case_execs' = n_case_execs + 1
    /\ LET upd(c) == [c EXCEPT !.runs = @ + 1,
                               !.verbose = @ + (IF IsVerboseRun(rerun_i) THEN 1 ELSE 0),
                               !.raised = "TimeoutExpired"]
       IN case_log' = LogCase(upd)
    /\ RerunRaise("TimeoutExpired")
    /\ UNCHANGED <<args, i, retcode, results_file, xml, failed_functions, what_failed,
                   rerun_i, n_passes, n_full_execs, n_parses, full_log, rets>>

\* one iteration of the loop of rerun_failed_testcase in which run_test
\* returns, and what follows the loop when it was the last one
RerunTestcase ==
    /\ pc = "rerun_loop"
    /\ \E rc \in Returncodes :
        LET passes == IF IsPass(rc) THEN n_passes + 1 ELSE n_passes
            upd(c) == [c EXCEPT !.runs = @ + 1,
                                !.zeros = @ + (IF rc = 0 THEN 1 ELSE 0),
                                !.verbose = @ + (IF IsVerboseRun(rerun_i) THEN 1 ELSE 0),
                                !.killed = @ \/ rc < 0]
            raise(c) == [upd(c) EXCEPT !.raised = "AssertionError"]
        IN
        /\ n_case_execs' = n_case_execs + 1
        /\ n_passes' = passes
        /\ IF PassedEnough(passes)
           THEN /\ case_log' = LogCase(upd)
                /\ rerun_i' = rerun_i
                /\ RerunReturns(TRUE)
           ELSE IF rerun_i + 1 < args.max_repeats
           THEN /\ case_log' = LogCase(upd)
                /\ rerun_i' = rerun_i + 1
                /\ UNCHANGED <<pc, exit_code, what_failed, rets>>
           ELSE IF PostLoopAssertsOk(passes)
           THEN /\ case_log' = LogCase(upd)
                /\ rerun_i' = rerun_i
                /\ RerunReturns(FALSE)
           ELSE /\ case_log' = LogCase(raise)
                /\ rerun_i' = rerun_i
                /\ RerunRaise("AssertionError")
                /\ UNCHANGED <<what_failed, rets>>
    /\ UNCHANGED <<args, i, retcode, results_file, xml, failed_functions,
                   n_full_execs, n_parses, full_log>>

Next ==
    \/ UseGivenTestlog
    \/ RunFullTestRaises
    \/ RunFullTest
    \/ ParseLog
    \/ CheckMaxRepeats
    \/ CallRerun
    \/ RerunRaises
    \/ RerunTestcase

Spec == Init /\ [][Next]_vars

(* ------------------------------ properties ----------------------------- *)
Done == pc = "done"

\* the history entry of the last full run
LastFullRun == full_log[Len(full_log)]

\* a full run exited non-zero and its log parses to a non-empty failure list
ReportedFailures(e) == e.outcome = "nonzero" /\ e.log = "failures"

\* the log of a full run is missing or malformed: no path, no file, not
\* XML, or not a <TestCase> document
Unreadable(e) ==
    e.log \in {"TypeError", "FileNotFoundError", "ParseError", "AssertionError"}

\* every entry of failed_functions was re-run and rerun_failed_testcase
\* returned True for it
AllRecovered ==
    /\ Len(rets) = Len(failed_functions)
    /\ \A k \in 1..Len(rets) : rets[k]

\* 1 <= passesNeeded <= maxRepeats
SoundPolicy == 1 <= args.passes_needed /\ args.passes_needed <= args.max_repeats

\* every listed testcase got its passes_needed zero exit codes and no re-run
\* raised
EveryCasePassedEnough ==
    /\ Len(case_log) = Len(failed_functions)
    /\ \A k \in 1..Len(case_log) :
        /\ case_log[k].zeros >= args.passes_needed
        /\ case_log[k].runs <= args.max_repeats
        /\ case_log[k].raised = ""

\* C1: when a full run exits non-zero with a non-empty failure list, under
\* a policy 1 <= passesNeeded <= maxRepeats, and every listed testcase
\* gets at least passesNeeded zero exit codes in its re-runs without any
\* exception, every testcase is RECOVERED and the script exits with 0.
C1_FlakyPass ==
    (/\ Done
     /\ SoundPolicy
     /\ full_log # <<>>
     /\ ReportedFailures(LastFullRun)
     /\ EveryCasePassedEnough)
    => (exit_code = 0 /\ AllRecovered)

C1_Witness ==
    /\ Done
    /\ SoundPolicy
    /\ full_log # <<>>
    /\ ReportedFailures(LastFullRun)
    /\ EveryCasePassedEnough
    /\ Len(failed_functions) = 2
    /\ case_log[2].runs > case_log[2].zeros
    /\ exit_code = 0

\* a testcase was re-run and ended with fewer than passes_needed zero exit
\* codes
SomeCaseUnrecovered ==
    \E k \in 1..Len(case_log) :
        case_log[k].runs >= 1 /\ case_log[k].zeros < args.passes_needed

NoRerunRaised == \A k \in 1..Len(case_log) : case_log[k].raised = ""

\* C2: with maxRepeats >= 1, when a testcase that was re-run does not get
\* passesNeeded zero exit codes within maxRepeats attempts and no re-run
\* raised, the attempts of that testcase are exhausted and the script exits
\* with 2.
C2_Unrecovered ==
    (Done /\ args.max_repeats >= 1 /\ SomeCaseUnrecovered /\ NoRerunRaised)
    => /\ exit_code = 2
       /\ \E k \in 1..Len(case_log) :
            case_log[k].runs = args.max_repeats /\ case_log[k].zeros < args.passes_needed

C2_Witness ==
    /\ Done
    /\ args.max_repeats = 2
    /\ args.passes_needed = 2
    /\ NoRerunRaised
    /\ Len(case_log) = 2
    /\ case_log[2].runs = 2
    /\ case_log[2].zeros = 1
    /\ exit_code = 2

\* C3 as claimed: when the initial full run exits non-zero with a missing
\* or malformed log and the log of the second full run is missing or
\* malformed too, the script exits with 3 and no testcase is re-run.
C3_Claimed ==
    (/\ Done
     /\ Len(full_log) >= 2
     /\ full_log[1].outcome = "nonzero"
     /\ Unreadable(full_log[1])
     /\ Unreadable(full_log[2]))
    => (exit_code = 3 /\ n_case_execs = 0 /\ case_log = <<>>)

\* C3 as amended: when the initial full run exits non-zero with a missing
\* or malformed log, and the second full run does not exit with 0 and its
\* log is missing or malformed too, the script exits with 3 and no
\* testcase is re-run.
C3_CrashTwice ==
    (/\ Done
     /\ Len(full_log) >= 2
     /\ full_log[1].outcome = "nonzero"
     /\ Unreadable(full_log[1])
     /\ full_log[2].outcome # "zero"
     /\ Unreadable(full_log[2]))
    => (exit_code = 3 /\ n_case_execs = 0 /\ case_log = <<>>)

C3_Witness ==
    /\ Done
    /\ Len(full_log) = 2
    /\ full_log[1] = [outcome |-> "nonzero", log |-> "FileNotFoundError"]
    /\ full_log[2] = [outcome |-> "nonzero", log |-> "ParseError"]
    /\ n_parses = 2
    /\ exit_code = 3

\* C4: when the initial full run exits with 0 the script is done with exit
\* code 0 after exactly one full run, without parsing any log and without
\* re-running any testcase.
C4_InitialPass ==
    (full_log # <<>> /\ full_log[1].outcome = "zero")
    => /\ Done
       /\ exit_code = 0
       /\ n_full_execs = 1
       /\ n_parses = 0
       /\ n_case_execs = 0
       /\ case_log = <<>>

C4_Witness ==
    /\ Done
    /\ full_log = <<[outcome |-> "zero", log |-> "failures"]>>
    /\ exit_code = 0

\* a full run exited non-zero and its log parses, with no failure in it
ZeroFailures(e) == e.outcome = "nonzero" /\ e.log = "no_failures"

C6_Claimed ==
    args.passes_needed > args.max_repeats
    => (n_full_execs = 0 /\ n_case_execs = 0)

\* C6 as amended: with passesNeeded > maxRepeats no re-run of a testcase is
\* ever started (the full runs are executed as with any other policy).
C6_NoRerunUnderBadPolicy ==
    args.passes_needed > args.max_repeats
    => /\ n_case_execs = 0
       /\ pc # "rerun_loop"
       /\ \A k \in 1..Len(case_log) : case_log[k].runs = 0

C6_Witness ==
    /\ Done
    /\ args.passes_needed > args.max_repeats
    /\ args.max_repeats >= 1
    /\ n_full_execs = 2
    /\ case_log = <<[NewCase EXCEPT !.raised = "AssertionError"]>>
    /\ exit_code = 3

\* C7 as claimed: there are at most two full runs, and a second one only
\* after the first exited non-zero and its log gave no usable failure list.
C7_Claimed ==
    /\ n_full_execs <= 2
    /\ n_full_execs = 2
       => (full_log[1].outcome = "nonzero" /\ full_log[1].log # "failures")

\* the first full run raised, or exited non-zero without a usable failure
\* list
FullRunCrashed(e) ==
    \/ e.outcome = "raised"
    \/ e.outcome = "nonzero" /\ e.log # "failures"

\* C7 as amended: there are at most two full runs; the second one happens
\* only after the first raised or exited non-zero without a usable failure
\* list, and in that case the script does not end without it.
C7_AtMostTwoFullRuns ==
    /\ n_full_execs <= 2
    /\ Len(full_log) = n_full_execs
    /\ n_full_execs = 2
       => (~args.parse_xml_testlog /\ FullRunCrashed(full_log[1]))
    /\ (Done /\ full_log # <<>> /\ FullRunCrashed(full_log[1]))
       => n_full_execs = 2

C7_Witness ==
    /\ Done
    /\ n_full_execs = 2
    /\ full_log[1].outcome = "raised"
    /\ ReportedFailures(full_log[2])

\* C8: with maxRepeats = 0, when the initial full run exits non-zero with a
\* non-empty failure list, no testcase is ever re-run, no second full run
\* happens and the script exits with 2.
C8_NoRepeats ==
    (args.max_repeats = 0 /\ full_log # <<>> /\ ReportedFailures(full_log[1]))
    => /\ n_case_execs = 0
       /\ case_log = <<>>
       /\ n_full_execs = 1
       /\ pc \in {"parse_log", "check_repeats", "done"}
       /\ Done => exit_code = 2

C8_Witness ==
    /\ Done
    /\ args.max_repeats = 0
    /\ full_log = <<[outcome |-> "nonzero", log |-> "failures"]>>
    /\ Len(failed_functions) = 2
    /\ exit_code = 2

\* the executable crashed in a re-run: killed by a signal, or run_test
\* raised
RerunCrashed ==
    \E k \in 1..Len(case_log) :
        case_log[k].killed \/ case_log[k].raised = "TimeoutExpired"

\* C9 as claimed: once the executable crashed in a re-run (the policy
\* being 1 <= passesNeeded <= maxRepeats) the script is done with exit
\* code 3.
C9_Claimed == (SoundPolicy /\ RerunCrashed) => (Done /\ exit_code = 3)

\* the given log of --parse-xml-testlog was read and could not be parsed
GivenLogUnreadable ==
    /\ args.parse_xml_testlog
    /\ n_parses >= 1
    /\ parse_log(results_file, xml).raised # ""

\* a crash at any point of the session
CrashOccurred ==
    \/ \E n \in 1..Len(full_log) : FullRunCrashed(full_log[n])
    \/ GivenLogUnreadable
    \/ RerunCrashed

CrashAtEnd ==
    \/ GivenLogUnreadable
    \/ /\ ~args.parse_xml_testlog
       /\ Len(full_log) = 2
       /\ FullRunCrashed(full_log[2])

C11_VerboseOnLastRerun ==
    \A k \in 1..Len(case_log) :
        /\ case_log[k].verbose \in {0, 1}
        /\ case_log[k].verbose = 1 <=> case_log[k].runs = args.max_repeats
        /\ (pc = "rerun_loop" /\ k = Len(case_log)) =>
              /\ case_log[k].runs = rerun_i
              /\ case_log[k].verbose = 0

C11_Witness ==
    /\ Done
    /\ args.max_repeats = 2
    /\ args.passes_needed = 1
    /\ Len(case_log) = 2
    /\ case_log[1].runs = 1
    /\ case_log[1].verbose = 0
    /\ case_log[2].runs = 2
    /\ case_log[2].zeros = 1
    /\ case_log[2].verbose = 1
    /\ exit_code = 0

\* C12: with --parse-xml-testlog no full run is ever executed: the given
\* log is parsed once, and when it is missing or malformed the script exits
\* with 3 without a second iteration and without re-running any testcase.
C12_GivenTestlog ==
    args.parse_xml_testlog =>
        /\ n_full_execs = 0
        /\ full_log = <<>>
        /\ n_parses <= 1
        /\ i = 0
        /\ pc # "full_run" => (n_parses = 1 \/ pc = "parse_log")
        /\ (n_parses = 1 /\ parse_log(results_file, xml).raised # "") =>
              /\ Done
              /\ exit_code = 3
              /\ n_case_execs = 0
              /\ case_log = <<>>

C12_Witness ==
    /\ args.parse_xml_testlog
    /\ Done
    /\ n_parses = 1
    /\ xml = [kind |-> "garbage", root |-> "", incidents |-> <<>>]
    /\ n_full_execs = 0
    /\ exit_code = 3

\* C13: every exception raised in main is caught by one of its two
\* handlers: the script never ends with an uncaught exception, it goes on
\* until it is done, and then its exit code is one of 0, 1, 2, 3.
C13_NoUncaughtFault ==
    /\ pc # "uncaught"
    /\ Done <=> exit_code \in {0, 1, 2, 3}
    /\ ~Done => (exit_code = Running /\ ENABLED Next)
    /\ (Done /\ ~NoRerunRaised) => exit_code = 3

C13_Witness ==
    /\ Done
    /\ exit_code = 3
    /\ Len(full_log) = 1
    /\ ReportedFailures(full_log[1])
    /\ args.passes_needed <= args.max_repeats
    /\ Len(case_log) = 1
    /\ case_log[1].raised = "AssertionError"

\* C14: under a policy 1 <= passesNeeded <= maxRepeats, in the loop of
\* rerun_failed_testcase n_passes is the number of zero exit codes seen,
\* 0 <= passes <= attempts <= maxRepeats and passes <= passesNeeded always
\* hold, the loop goes on only while passes < passesNeeded and returns
\* True at the attempt that makes them equal, and the assertions after the
\* loop never fail.
C14_RetryLoop ==
    SoundPolicy =>
        /\ \A k \in 1..Len(case_log) :
            /\ 0 <= case_log[k].zeros
            /\ case_log[k].zeros <= case_log[k].runs
            /\ case_log[k].runs <= args.max_repeats
            /\ case_log[k].zeros <= args.passes_needed
            /\ case_log[k].raised # "AssertionError"
            /\ case_log[k].zeros = args.passes_needed => (k <= Len(rets) /\ rets[k])
            /\ k <= Len(rets) =>
                  /\ rets[k] <=> case_log[k].zeros = args.passes_needed
                  /\ ~rets[k] => case_log[k].runs = args.max_repeats
        /\ pc = "rerun_loop" =>
            /\ n_passes = case_log[Len(case_log)].zeros
            /\ rerun_i = case_log[Len(case_log)].runs
            /\ n_passes < args.passes_needed
            /\ rerun_i < args.max_repeats

C14_Witness ==
    /\ Done
    /\ args.max_repeats = 2
    /\ args.passes_needed = 2
    /\ Len(case_log) = 2
    /\ case_log[1].zeros = 2
    /\ rets = <<TRUE, FALSE>>
    /\ case_log[2].zeros = 1
    /\ case_log[2].runs = 2
    /\ n_passes = 1

\* an incident that signals a failure
IsFailSignal(inc) == inc.type = "fail" \/ inc.type = "xpass"

\* the testcases of the fail and xpass incidents of a log, in document
\* order, one per incident
FailSignals(incs) ==
    LET sel == SelectSeq(incs, IsFailSignal) IN
    [k \in 1..Len(sel) |-> [func |-> sel[k].func, tag |-> sel[k].tag]]

\* a log was parsed to the failure list the re-runs work on
InRetryPhase ==
    \/ pc \in {"check_repeats", "rerun_call", "rerun_loop"}
    \/ Done /\ case_log # <<>>

\* C15: the re-runs follow the log in order and multiplicity: the k-th
\* call of rerun_failed_testcase is for the testcase of the k-th fail or
\* xpass incident of the log, a testcase listed twice is re-run in two
\* separate loops, each starting from zero attempts and zero passes, and
\* the script exits with 0 only after one loop per incident.
C15_OrderAndMultiplicity ==
    InRetryPhase =>
        LET F == FailSignals(xml.incidents) IN
        /\ Len(failed_functions) = Len(F)
        /\ Len(case_log) <= Len(F)
        /\ \A k \in 1..Len(case_log) :
              case_log[k].failed_arg \in {<<>>, FailedArg(F[k])}
              /\ (case_log[k].failed_arg = <<>> => case_log[k].runs = 0)
        /\ pc = "rerun_call" => what_failed = Len(case_log) + 1
        /\ pc = "rerun_loop" =>
              /\ what_failed = Len(case_log)
              /\ rerun_i = case_log[what_failed].runs
              /\ n_passes = case_log[what_failed].zeros
        /\ (Done /\ exit_code = 0 /\ args.passes_needed >= 1) =>
              /\ Len(case_log) = Len(F)
              /\ \A k \in 1..Len(F) : case_log[k].zeros = args.passes_needed

C15_Witness ==
    /\ Done
    /\ exit_code = 0
    /\ args.passes_needed = 2
    /\ failed_functions = <<WhatFailed("foo", "row1"), WhatFailed("foo", "row1")>>
    /\ Len(case_log) = 2
    /\ case_log[1].failed_arg = <<"foo", ":", "row1">>
    /\ case_log[2].failed_arg = <<"foo", ":", "row1">>
    /\ case_log[1].zeros = 2
    /\ case_log[2].zeros = 2

\* C16: parse_log returns the testcases of the fail and xpass incidents in
\* document order, counts every other incident as a pass, and leaves the
\* log as it was: parsing it again gives the list the script works on.
C16_ParseLog ==
    InRetryPhase =>
        LET p == parse_log(results_file, xml) IN
        /\ xml.kind = "xml"
        /\ p.raised = ""
        /\ failed_functions = FailSignals(xml.incidents)
        /\ p.failures = failed_functions
        /\ p.n_passes + Len(failed_functions) = Len(xml.incidents)
        /\ p.n_passes = Cardinality({k \in 1..Len(xml.incidents) :
                                        ~IsFailSignal(xml.incidents[k])})

C16_Witness ==
    /\ pc = "check_repeats"
    /\ xml.kind = "xml"
    /\ Len(xml.incidents) = 2
    /\ xml.incidents[1].type = "pass"
    /\ xml.incidents[2] = [func |-> "foo", type |-> "xpass", tag |-> "row1"]
    /\ failed_functions = <<WhatFailed("foo", "row1")>>

\* C17: the testcases are re-run one after the other in list order: a
\* testcase is re-run only when rerun_failed_testcase has returned True for
\* every testcase before it, and once it returns False the script is done
\* with exit code 2, so that no later testcase is re-run.
C17_SerialShortCircuit ==
    /\ Len(rets) <= Len(case_log)
    /\ Len(case_log) <= Len(rets) + 1
    /\ Len(case_log) = Len(rets) + 1 =>
          \/ pc = "rerun_loop" /\ what_failed = Len(case_log)
          \/ Done /\ exit_code = 3
    /\ \A k \in 1..Len(rets) :
          /\ k < Len(case_log) => rets[k]
          /\ ~rets[k] =>
                /\ k = Len(case_log)
                /\ Done
                /\ exit_code = 2
    /\ n_case_execs > 0 => (n_parses >= 1 /\ pc \in {"rerun_call", "rerun_loop", "done"})

C17_Witness ==
    /\ Done
    /\ exit_code = 2
    /\ Len(failed_functions) = 2
    /\ rets = <<FALSE>>
    /\ Len(case_log) = 1
    /\ case_log[1].runs = 2

\* the second full run was made, after a first one that crashed, and it
\* exited with 0
RecoveredByFullRun ==
    /\ Len(full_log) = 2
    /\ FullRunCrashed(full_log[1])
    /\ full_log[2].outcome = "zero"

\* the second full run was made, after a first one that crashed, and it
\* exited non-zero with a non-empty failure list
RecoveryReportedFailures ==
    /\ Len(full_log) = 2
    /\ FullRunCrashed(full_log[1])
    /\ ReportedFailures(full_log[2])

\* after a second full run that exits with 0 the script is done with exit
\* code 0: the log of that run is not parsed and no testcase is re-run
PassAfterCrash ==
    RecoveredByFullRun =>
        /\ Done
        /\ exit_code = 0
        /\ n_parses = (IF full_log[1].outcome = "nonzero" THEN 1 ELSE 0)
        /\ n_case_execs = 0
        /\ case_log = <<>>

\* C18 as claimed (the policy being 1 <= passesNeeded <= maxRepeats): a
\* second full run that exits with 0 ends the script with exit code 0; one
\* that exits non-zero with a non-empty failure list has its testcases
\* re-run, and the exit code is 0 when all recovered and 2 otherwise.
C18_Claimed ==
    /\ PassAfterCrash
    /\ (SoundPolicy /\ RecoveryReportedFailures /\ Done) =>
          exit_code = (IF AllRecovered THEN 0 ELSE 2)

\* C18 as amended: a second full run that exits with 0 ends the script with
\* exit code 0, its log not parsed and no testcase re-run; one that exits
\* non-zero with a non-empty failure list has the testcases of its log
\* re-run, and the exit code is 3 when a re-run raised, else 0 when
\* maxRepeats >= 1 and all recovered, else 2.
C18_RecoveryRun ==
    /\ PassAfterCrash
    /\ RecoveryReportedFailures =>
          /\ pc \in {"parse_log", "check_repeats", "rerun_call", "rerun_loop", "done"}
          /\ pc # "parse_log" => failed_functions = FailSignals(xml.incidents)
          /\ Done =>
                exit_code = (IF ~NoRerunRaised THEN 3
                             ELSE IF args.max_repeats >= 1 /\ AllRecovered THEN 0
                             ELSE 2)

C18_Witness ==
    /\ Done
    /\ Len(full_log) = 2
    /\ full_log[1] = [outcome |-> "nonzero", log |-> "ParseError"]
    /\ ReportedFailures(full_log[2])
    /\ n_parses = 2
    /\ rets = <<TRUE, FALSE>>
    /\ exit_code = 2

FairSpec == Spec /\ WF_vars(Next)

\* the numbers of executions stay within the budget of the session
WithinBudget ==
    /\ n_full_execs <= 2
    /\ Len(case_log) <= Len(failed_functions)
    /\ \A k \in 1..Len(case_log) : case_log[k].runs <= args.max_repeats
    /\ n_case_execs <= Len(failed_functions) * args.max_repeats

\* C20: every session ends: the script is eventually done, after at most
\* 2 full runs, at most maxRepeats re-runs per entry of the failure list
\* and at most |F| * maxRepeats re-runs in all.
C20_Terminates == <>Done /\ []WithinBudget

C20_Witness ==
    /\ Done
    /\ n_full_execs = 2
    /\ Len(failed_functions) = 2
    /\ args.max_repeats = 2
    /\ n_case_execs = 4
====
